---- MODULE Spec2Model ----
(***************************************************************************)
(* Model of src/release.py: the release automation script of the           *)
(* myst-plugins repository.  main() parses its arguments, enumerates the   *)
(* plugins root, and runs process_plugin for every targeted plugin, one    *)
(* after the other.  Every external call (git, npm, node, gh, the file     *)
(* system) is a nondeterministic choice over the outcomes the call can     *)
(* have: a zero exit, a non-zero exit (subprocess.CalledProcessError when  *)
(* check=True) or the tool being absent (FileNotFoundError).               *)
(***************************************************************************)
EXTENDS Integers, Sequences, FiniteSets, TLC

\* ------------------------------------------------------------------ bounds
\* Largest number of plugin names given on the command line.
MaxTargets == 2
\* Largest number of .mjs files a plugin directory or its dist/ holds.
MaxAssets == 2

\* ------------------------------------------------------- names and strings
\* Plugin names are strings, modelled as sequences of characters.
NameAB == <<"a", "-", "b">>
NameBA == <<"b", "a">>
Names == {NameAB, NameBA}

\* Code point of a character (the order Python compares strings by).
Code(c) ==
    CASE c = " " -> 32
      [] c = "-" -> 45
      [] c = "A" -> 65
      [] c = "B" -> 66
      [] c = "a" -> 97
      [] c = "b" -> 98

\* str.__lt__: lexicographic comparison by code point.
RECURSIVE StrLess(_, _)
StrLess(s, t) ==
    IF t = <<>> THEN FALSE
    ELSE IF s = <<>> THEN TRUE
    ELSE IF Code(Head(s)) # Code(Head(t)) THEN Code(Head(s)) < Code(Head(t))
    ELSE StrLess(Tail(s), Tail(t))

\* sorted([p for p in plugins_dir.iterdir() if p.is_dir()]), as names.
SortedDirs(S) ==
    CHOOSE q \in [1..Cardinality(S) -> S] :
        /\ \A i, j \in 1..Cardinality(S) : i < j => StrLess(q[i], q[j])

IsCased(c) == c \in {"a", "b", "A", "B"}
Upper(c) == CASE c = "a" -> "A" [] c = "b" -> "B" [] OTHER -> c
Lower(c) == CASE c = "A" -> "a" [] c = "B" -> "b" [] OTHER -> c

\* str.replace("-", " ")
Replace(s) == [i \in 1..Len(s) |-> IF s[i] = "-" THEN " " ELSE s[i]]

\* str.title(): a cased character is upper-cased when the character before
\* it is not cased and lower-cased otherwise.
Title(s) ==
    [i \in 1..Len(s) |->
        IF IsCased(s[i])
        THEN IF i > 1 /\ IsCased(s[i - 1]) THEN Lower(s[i]) ELSE Upper(s[i])
        ELSE s[i]]

\* plugin_name.replace("-", " ").title()
Humanize(name) == Title(Replace(name))

\* readme_url and notes of create_release.
ReadmeUrl(name) ==
    <<"https://github.com/jupyter-book/myst-plugins/tree/main/plugins/", name>>
Notes(name) == <<"See plugin documentation: ", ReadmeUrl(name)>>

\* ------------------------------------------------------------- the state
VARIABLES
    deploy, all_plugins, plugin_names,  \* the parsed command line
    root_exists, dirs,                  \* the plugins root and its subdirectories
    targets, idx, processed,            \* the loop of main
    success_count, outcomes, exit_code,
    listing,                            \* the lines list_plugins printed
    pc, exc,                            \* control position, propagating exception
    stage,                              \* where process_plugin stands
    cmds,                               \* external steps run for the current plugin
    tag_out, diff_rc,                   \* outcomes of git tag -l and git diff
    has_changes, message, warned,
    build_file, node_modules, npm_out, node_out, built,
    asset_dir, release_assets,
    printed, executed, gh_runs

mainVars == <<deploy, all_plugins, plugin_names, root_exists, dirs, targets,
              idx, processed, success_count, outcomes, exit_code, listing>>
pluginVars == <<stage, cmds, tag_out, diff_rc, has_changes, message, warned,
                build_file, node_modules, npm_out, node_out, built,
                asset_dir, release_assets, printed, executed>>
vars == <<mainVars, pc, exc, pluginVars, gh_runs>>

\* Outcomes of a subprocess.run(..., check=True) call.
Outcomes == {"ok", "nonzero", "absent"}
\* Return codes of git diff --quiet: same, differ, error.
DiffCodes == {0, 1, 128}

NoCmd == [tag |-> <<>>, title |-> <<>>, notes |-> <<>>, assets |-> <<>>]

\* All sequences over S of length at most n.
SeqsUpTo(S, n) == UNION {[1..k -> S] : k \in 0..n}
\* What a glob over at most MaxAssets files can yield: any order, no repeats.
Globs ==
    {q \in SeqsUpTo(1..MaxAssets, MaxAssets) :
        \A i, j \in 1..Len(q) : i # j => q[i] # q[j]}

Init ==
    /\ deploy \in BOOLEAN
    /\ all_plugins \in BOOLEAN
    /\ plugin_names \in SeqsUpTo(Names, MaxTargets)
    /\ root_exists \in BOOLEAN
    /\ dirs \in IF root_exists THEN SUBSET Names ELSE {{}}
    /\ targets = <<>>
    /\ idx = 0
    /\ processed = <<>>
    /\ success_count = 0
    /\ outcomes = <<>>
    /\ exit_code = -1
    /\ listing = <<>>
    /\ pc = "main"
    /\ exc = "none"
    /\ stage = "NONE"
    /\ cmds = <<>>
    /\ tag_out = "none"
    /\ diff_rc = -1
    /\ has_changes = FALSE
    /\ message = ""
    /\ warned = FALSE
    /\ build_file = "unset"
    /\ node_modules = FALSE
    /\ npm_out = "none"
    /\ node_out = "none"
    /\ built = FALSE
    /\ asset_dir = "none"
    /\ release_assets = <<>>
    /\ printed = NoCmd
    /\ executed = NoCmd
    /\ gh_runs = 0


\* --------------------------------------------------------- shared pieces
\* The plugin process_plugin is working on.
Current == targets[idx]

\* process_plugin returns ok to the loop of main (lines 298-299); why is the
\* last line it logged for the plugin.
Return(ok, why) ==
    /\ outcomes' = Append(outcomes, [ok |-> ok, why |-> why])
    /\ success_count' = IF ok THEN success_count + 1 ELSE success_count
    /\ pc' = "loop"
    /\ exc' = exc

\* An exception no handler of the script catches leaves main.
Raise(e) ==
    /\ pc' = "raised"
    /\ exc' = e
    /\ UNCHANGED <<outcomes, success_count>>

\* Control moves on inside process_plugin.
Goto(label) ==
    /\ pc' = label
    /\ UNCHANGED <<exc, outcomes, success_count>>

\* ------------------------------------------------------------------ main
\* plugin_names and --all decide between listing and releasing (line 285).
ListsOnly(names, all) == names = <<>> /\ ~all

\* The plugins to process (lines 290-293).
Targets(names, all, ds) == IF all THEN SortedDirs(ds) ELSE names

\* main, lines 269-293: parse the arguments, enumerate the plugins root.
\* Path.iterdir raises FileNotFoundError when the root is missing.
MainStart ==
    /\ pc = "main"
    /\ IF ~root_exists
       THEN /\ pc' = "raised"
            /\ exc' = "FileNotFoundError"
            /\ UNCHANGED targets
       ELSE IF ListsOnly(plugin_names, all_plugins)
       THEN /\ pc' = "list"
            /\ UNCHANGED <<exc, targets>>
       ELSE /\ pc' = "loop"
            /\ targets' = Targets(plugin_names, all_plugins, dirs)
            /\ exc' = exc
    /\ UNCHANGED <<deploy, all_plugins, plugin_names, root_exists, dirs, idx,
                   processed, success_count, outcomes, exit_code, listing,
                   pluginVars, gh_runs>>

\* The status list_plugins prints for one plugin (lines 79-98).
Status(tag, date) ==
    IF tag = "nonzero" \/ (tag = "listed" /\ date = "nonzero") THEN "status unknown"
    ELSE IF tag = "empty" THEN "never released"
    ELSE IF date = "empty" THEN "released"
    ELSE "last released"

\* list_plugins and the return 0 of main (lines 62-101, 286-287).  git being
\* absent raises FileNotFoundError at the first plugin.
ListPlugins ==
    /\ pc = "list"
    /\ \E git_present \in BOOLEAN :
          IF ~git_present /\ dirs # {}
          THEN /\ pc' = "raised"
               /\ exc' = "FileNotFoundError"
               /\ UNCHANGED <<listing, exit_code>>
          ELSE /\ \E tags \in [dirs -> {"listed", "empty", "nonzero"}],
                     dates \in [dirs -> {"listed", "empty", "nonzero"}] :
                     listing' = [k \in 1..Cardinality(dirs) |->
                                   Status(tags[SortedDirs(dirs)[k]],
                                          dates[SortedDirs(dirs)[k]])]
               /\ exit_code' = 0
               /\ pc' = "done"
               /\ exc' = exc
    /\ UNCHANGED <<deploy, all_plugins, plugin_names, root_exists, dirs, targets,
                   idx, processed, success_count, outcomes, pluginVars, gh_runs>>

\* The for loop of main takes the next target and calls process_plugin
\* (lines 297-298, 229-231).
LoopNext ==
    /\ pc = "loop"
    /\ idx < Len(targets)
    /\ idx' = idx + 1
    /\ processed' = Append(processed, targets[idx + 1])
    /\ stage' = "DISCOVERED"
    /\ cmds' = <<>>
    /\ tag_out' = "none"
    /\ diff_rc' = -1
    /\ has_changes' = FALSE
    /\ message' = ""
    /\ warned' = FALSE
    /\ build_file' = "unset"
    /\ node_modules' = FALSE
    /\ npm_out' = "none"
    /\ node_out' = "none"
    /\ built' = FALSE
    /\ asset_dir' = "none"
    /\ release_assets' = <<>>
    /\ printed' = NoCmd
    /\ executed' = NoCmd
    /\ Goto("exists")
    /\ UNCHANGED <<deploy, all_plugins, plugin_names, root_exists, dirs, targets,
                   exit_code, listing, gh_runs>>

\* The exit code of main (line 303).
ExitCode(count, n) == IF count = n THEN 0 ELSE 1

\* The loop is over: main returns its exit code (lines 301-303).
MainReturn ==
    /\ pc = "loop"
    /\ idx = Len(targets)
    /\ exit_code' = ExitCode(success_count, Len(targets))
    /\ pc' = "done"
    /\ UNCHANGED <<deploy, all_plugins, plugin_names, root_exists, dirs, targets,
                   idx, processed, success_count, outcomes, listing, exc,
                   pluginVars, gh_runs>>


\* -------------------------------------------------------- process_plugin
\* What process_plugin never assigns.
fixedVars == <<deploy, all_plugins, plugin_names, root_exists, dirs, targets,
               idx, processed, exit_code, listing>>

\* plugin_dir.exists() (line 234).
DirExists(name, ds) == name \in ds

\* Mutant of CheckDir: the error is logged but process_plugin does not return.
CheckDirNoReturn ==
    /\ pc = "exists"
    /\ IF DirExists(Current, dirs)
       THEN UNCHANGED stage
       ELSE stage' = "FAILED"
    /\ Goto("check_changes")
    /\ UNCHANGED <<fixedVars, cmds, tag_out, diff_rc, has_changes, message,
                   warned, build_file, node_modules, npm_out, node_out, built,
                   asset_dir, release_assets, printed, executed, gh_runs>>

\* process_plugin, lines 231-236: a missing plugin directory fails the plugin.
CheckDir ==
    /\ pc = "exists"
    /\ IF DirExists(Current, dirs)
       THEN /\ Goto("check_changes")
            /\ UNCHANGED stage
       ELSE /\ stage' = "FAILED"
            /\ Return(FALSE, "Plugin directory not found")
    /\ UNCHANGED <<fixedVars, cmds, tag_out, diff_rc, has_changes, message,
                   warned, build_file, node_modules, npm_out, node_out, built,
                   asset_dir, release_assets, printed, executed, gh_runs>>

\* Mutant of HasChanges: the return code of git diff is not looked at.
HasChangesIgnoresDiff(tag, rc) == TRUE

\* The first component of what check_changes_since_release returns
\* (lines 114-131): tag is the outcome of git tag -l, rc the return code of
\* git diff --quiet.
HasChanges(tag, rc) ==
    IF tag = "nonzero" THEN TRUE
    ELSE IF tag = "listed" THEN rc # 0
    ELSE TRUE

\* The second component (lines 123-131).
Message(tag, rc) ==
    IF tag = "nonzero" THEN "Could not check git history"
    ELSE IF tag = "listed"
         THEN IF rc = 0 THEN "No changes since last release"
              ELSE "Changes detected since last release"
    ELSE "No previous release found"

\* The warning is logged by the except clause alone (lines 129-130).
Warns(tag, rc) == tag = "nonzero"

\* check_changes_since_release, lines 104-131.  Only CalledProcessError is
\* caught: git being absent raises FileNotFoundError through process_plugin.
CheckChangesSinceRelease ==
    /\ pc = "check_changes"
    /\ \E t \in {"listed", "empty", "nonzero", "absent"}, rc \in DiffCodes :
          /\ tag_out' = t
          /\ diff_rc' = IF t = "listed" THEN rc ELSE -1
          /\ cmds' = cmds \o (IF t = "absent" THEN <<>> ELSE <<"git tag">>)
                          \o (IF t = "listed" THEN <<"git diff">> ELSE <<>>)
          /\ IF t = "absent"
             THEN /\ Raise("FileNotFoundError")
                  /\ UNCHANGED <<has_changes, message, warned, stage>>
             ELSE /\ has_changes' = HasChanges(t, rc)
                  /\ message' = Message(t, rc)
                  /\ warned' = Warns(t, rc)
                  /\ stage' = "CHANGE_CHECKED"
                  /\ Goto("decide")
    /\ UNCHANGED <<fixedVars, build_file, node_modules, npm_out, node_out, built,
                   asset_dir, release_assets, printed, executed, gh_runs>>

\* build.js is preferred to build.mjs (lines 247-251).
BuildFile(js, mjs) == IF js THEN "build.js" ELSE IF mjs THEN "build.mjs" ELSE "none"

\* process_plugin, lines 240-255: skip an unchanged plugin, else look for
\* the build descriptor.
SkipOrProceed ==
    /\ pc = "decide"
    /\ IF ~has_changes
       THEN /\ stage' = "SKIPPED"
            /\ Return(TRUE, "skipping")
            /\ UNCHANGED build_file
       ELSE \E js, mjs \in BOOLEAN :
               /\ build_file' = BuildFile(js, mjs)
               /\ IF build_file' # "none"
                  THEN /\ Goto("build")
                       /\ UNCHANGED stage
                  ELSE /\ stage' = "UNBUILT"
                       /\ Goto("collect")
    /\ UNCHANGED <<fixedVars, cmds, tag_out, diff_rc, has_changes, message,
                   warned, node_modules, npm_out, node_out, built, asset_dir,
                   release_assets, printed, executed, gh_runs>>

\* Mutant of NeedsInstall: the installer runs on every build.
NeedsInstallAlways(nm) == TRUE

\* npm install runs when node_modules is missing (line 140).
NeedsInstall(nm) == ~nm

\* Mutant of BuildOk: the exit status of the build is not checked.
BuildOkAlways(npm, node) == TRUE

\* build_plugin returns True when no call raised CalledProcessError
\* (lines 138-160); npm is "none" when the installer was not needed.
BuildOk(npm, node) == npm \in {"none", "ok"} /\ node = "ok"

\* build_plugin and its call, lines 134-160 and 256-258.
BuildPlugin ==
    /\ pc = "build"
    /\ \E nm \in BOOLEAN, n \in Outcomes, b \in Outcomes :
          LET npm == IF NeedsInstall(nm) THEN n ELSE "none"
              node == IF npm \in {"none", "ok"} THEN b ELSE "none"
          IN /\ node_modules' = nm
             /\ npm_out' = npm
             /\ node_out' = node
             /\ cmds' = cmds
                   \o (IF npm \in {"ok", "nonzero"} THEN <<"npm install">> ELSE <<>>)
                   \o (IF node \in {"ok", "nonzero"} THEN <<"node build">> ELSE <<>>)
             /\ IF npm = "absent" \/ node = "absent"
                THEN /\ Raise("FileNotFoundError")
                     /\ UNCHANGED <<built, stage>>
                ELSE IF BuildOk(npm, node)
                THEN /\ built' = TRUE
                     /\ stage' = "BUILT"
                     /\ Goto("collect")
                ELSE /\ stage' = "FAILED"
                     /\ Return(FALSE, "Build failed")
                     /\ UNCHANGED built
    /\ UNCHANGED <<fixedVars, tag_out, diff_rc, has_changes, message, warned,
                   build_file, asset_dir, release_assets, printed, executed,
                   gh_runs>>

\* Where collect_release_assets looks (lines 165-179).
AssetDir(b) == IF b THEN "dist" ELSE "plugin_dir"

\* What collect_release_assets returns (lines 165-183): dist_exists matters
\* for a built plugin only, glob is what *.mjs matches in the directory.
Collected(b, dist_exists, glob) ==
    IF AssetDir(b) = "dist" /\ ~dist_exists THEN <<>> ELSE glob

\* The collection step as logged in cmds.
CollectCmd(dir) == IF dir = "dist" THEN "collect dist" ELSE "collect plugin_dir"

\* Mutant of NoAssets: the empty asset list is not checked.
NoAssetsNever(assets) == FALSE

\* An empty asset list fails the plugin (line 262).
NoAssets(assets) == assets = <<>>

\* collect_release_assets and its call, lines 163-183 and 261-263.
CollectReleaseAssets ==
    /\ pc = "collect"
    /\ \E dist_exists \in BOOLEAN, glob \in Globs :
          /\ asset_dir' = AssetDir(built)
          /\ release_assets' = Collected(built, dist_exists, glob)
          /\ cmds' = Append(cmds, CollectCmd(asset_dir'))
          /\ IF NoAssets(release_assets')
             THEN /\ stage' = "FAILED"
                  /\ Return(FALSE, "No assets found")
             ELSE /\ stage' = "ASSETS_COLLECTED"
                  /\ Goto("release")
    /\ UNCHANGED <<fixedVars, tag_out, diff_rc, has_changes, message, warned,
                   build_file, node_modules, npm_out, node_out, built, printed,
                   executed, gh_runs>>

\* asset_paths of create_release (lines 193-196): the assets relative to the
\* working directory.
AssetPaths(name, dir, assets) ==
    [k \in 1..Len(assets) |-> <<"plugins", name, dir, assets[k]>>]

\* release_cmd of create_release (lines 197-201).
ReleaseCmd(name, paths) ==
    [tag |-> name, title |-> Humanize(name), notes |-> Notes(name), assets |-> paths]

\* The command create_release prints in dry-run mode (lines 221-222).
PrintedCmd(name, paths) ==
    [tag |-> name, title |-> Humanize(name), notes |-> Notes(name),
     assets |-> <<paths[1]>>]

\* Mutant of Executes: the release command runs in dry-run mode too.
ExecutesAlways(d) == TRUE

\* The release command runs with --deploy only (line 206).
Executes(d) == d

\* create_release and the return of process_plugin, lines 186-224 and 266.
\* Path.relative_to raises ValueError for an asset that resolves outside the
\* working directory; gh being absent raises FileNotFoundError.
CreateRelease ==
    /\ pc = "release"
    /\ \E resolves \in BOOLEAN, gh \in Outcomes :
          LET paths == AssetPaths(Current, asset_dir, release_assets)
          IN IF ~resolves
             THEN /\ Raise("ValueError")
                  /\ UNCHANGED <<stage, cmds, printed, executed, gh_runs>>
             ELSE IF Executes(deploy)
             THEN IF gh = "absent"
                  THEN /\ Raise("FileNotFoundError")
                       /\ UNCHANGED <<stage, cmds, printed, executed, gh_runs>>
                  ELSE /\ executed' = ReleaseCmd(Current, paths)
                       /\ gh_runs' = gh_runs + 1
                       /\ cmds' = Append(cmds, "gh release create")
                       /\ stage' = IF gh = "ok" THEN "RELEASED" ELSE "FAILED"
                       /\ Return(gh = "ok", IF gh = "ok" THEN "Release created!"
                                                         ELSE "Release failed")
                       /\ UNCHANGED printed
             ELSE /\ printed' = PrintedCmd(Current, paths)
                  /\ cmds' = Append(cmds, "print command")
                  /\ stage' = "RELEASED"
                  /\ Return(TRUE, "dry-run mode")
                  /\ UNCHANGED <<executed, gh_runs>>
    /\ UNCHANGED <<fixedVars, tag_out, diff_rc, has_changes, message, warned,
                   build_file, node_modules, npm_out, node_out, built, asset_dir,
                   release_assets>>

\* ---------------------------------------------------------- specification
Next ==
    \/ MainStart
    \/ ListPlugins
    \/ LoopNext
    \/ MainReturn
    \/ CheckDir
    \/ CheckChangesSinceRelease
    \/ SkipOrProceed
    \/ BuildPlugin
    \/ CollectReleaseAssets
    \/ CreateRelease

Spec == Init /\ [][Next]_vars


\* ------------------------------------------------------------ properties
InCmds(c) == \E k \in 1..Len(cmds) : cmds[k] = c
Pos(c) == CHOOSE k \in 1..Len(cmds) : cmds[k] = c
Collects == InCmds("collect dist") \/ InCmds("collect plugin_dir")
Emits == InCmds("gh release create") \/ InCmds("print command")
\* process_plugin has returned for the current plugin.
Returned == idx > 0 /\ pc \in {"loop", "done"} /\ Len(outcomes) = idx
Terminal == {"SKIPPED", "RELEASED", "FAILED"}

\* C1: in dry-run mode (no --deploy) gh release create is never executed,
\* whatever the targets and the outcomes of the external calls; a plugin that
\* reaches the release step has its command printed instead.
C1_DryRunNeverExecutes ==
    ~deploy =>
        /\ gh_runs = 0
        /\ executed = NoCmd
        /\ ~InCmds("gh release create")
        /\ stage = "RELEASED" =>
              /\ printed # NoCmd
              /\ cmds[Len(cmds)] = "print command"

C1_Witness ==
    /\ ~deploy
    /\ pc = "done"
    /\ idx = 2
    /\ outcomes[1].why = "dry-run mode"
    /\ stage = "RELEASED"
    /\ printed # NoCmd

\* C2: a plugin whose directory exists, whose tag exists and whose diff against
\* the tag is empty is reported unchanged and skipped: process_plugin returns
\* True and runs no installer, build, asset collection or release step.
C2_UnchangedPluginSkipped ==
    (tag_out = "listed" /\ diff_rc = 0) =>
        /\ Current \in dirs
        /\ ~has_changes
        /\ message = "No changes since last release"
        /\ cmds = <<"git tag", "git diff">>
        /\ build_file = "unset" /\ ~built
        /\ npm_out = "none" /\ node_out = "none"
        /\ release_assets = <<>> /\ asset_dir = "none"
        /\ printed = NoCmd /\ executed = NoCmd
        /\ IF pc = "decide"
           THEN stage = "CHANGE_CHECKED"
           ELSE /\ stage = "SKIPPED"
                /\ Returned
                /\ outcomes[idx] = [ok |-> TRUE, why |-> "skipping"]

C2_Witness ==
    /\ deploy
    /\ tag_out = "listed"
    /\ diff_rc = 0
    /\ stage = "SKIPPED"
    /\ pc = "done"
    /\ exit_code = 0

\* C3: when the git tag call or the git diff call of
\* check_changes_since_release fails, the plugin is reported as needing a
\* release, a warning is logged and the plugin is not skipped.
C3_VcsFailureWarns ==
    (tag_out = "nonzero" \/ diff_rc = 128) =>
        /\ has_changes
        /\ warned
        /\ stage # "SKIPPED"

\* C4: when a build descriptor exists and npm install or the node build exits
\* non-zero, the plugin fails: no asset collection, no release command,
\* process_plugin returns False, and control is back in the loop of main,
\* which goes on to the next target.
C4_BuildFailureFailsPlugin ==
    (npm_out = "nonzero" \/ node_out = "nonzero") =>
        /\ build_file \in {"build.js", "build.mjs"}
        /\ stage = "FAILED"
        /\ ~built
        /\ ~Collects /\ ~Emits
        /\ release_assets = <<>>
        /\ printed = NoCmd /\ executed = NoCmd
        /\ Returned
        /\ outcomes[idx] = [ok |-> FALSE, why |-> "Build failed"]
        /\ exc = "none"
        /\ pc = "loop" /\ idx < Len(targets) => ENABLED LoopNext
        /\ pc = "done" => exit_code = 1

C4_Witness ==
    /\ idx = 2
    /\ outcomes[1] = [ok |-> FALSE, why |-> "Build failed"]
    /\ stage = "RELEASED"
    /\ pc = "done"
    /\ exit_code = 1

\* C5: when asset collection finds no file, built or not, dry-run or deploy,
\* the plugin fails and create_release is not called for it.
C5_NoAssetsFailsPlugin ==
    (Collects /\ release_assets = <<>>) =>
        /\ stage = "FAILED"
        /\ Returned
        /\ outcomes[idx] = [ok |-> FALSE, why |-> "No assets found"]
        /\ ~Emits
        /\ printed = NoCmd /\ executed = NoCmd

C5_Witness ==
    /\ deploy
    /\ built
    /\ InCmds("collect dist")
    /\ release_assets = <<>>
    /\ stage = "FAILED"
    /\ pc = "done"

\* C6: when main is invoked with plugin names or --all, every target is
\* processed once, in order, and the run ends with exit code 0 exactly when
\* every target succeeded and 1 otherwise.
C6_EveryTargetProcessed ==
    (pc \in {"done", "raised"} /\ root_exists
        /\ ~ListsOnly(plugin_names, all_plugins)) =>
        /\ processed = Targets(plugin_names, all_plugins, dirs)
        /\ Len(outcomes) = Len(processed)
        /\ exit_code = IF \A k \in 1..Len(outcomes) : outcomes[k].ok THEN 0 ELSE 1

\* What the loop of main keeps, and what holds of the runs in which main
\* returns: the targets were processed in order and the exit code aggregates
\* the outcomes.
ReturnedRunAggregates ==
    /\ processed = SubSeq(targets, 1, idx)
    /\ Len(outcomes) \in {idx - 1, idx}
    /\ success_count = Cardinality({k \in 1..Len(outcomes) : outcomes[k].ok})
    /\ \A k \in 1..Len(outcomes) :
          outcomes[k].ok <=>
              outcomes[k].why \in {"skipping", "Release created!", "dry-run mode"}
    /\ pc = "done" =>
          /\ processed = targets
          /\ Len(outcomes) = Len(targets)
          /\ exit_code \in {0, 1}
          /\ exit_code = 0 <=> \A k \in 1..Len(outcomes) : outcomes[k].ok
          /\ exit_code = 1 <=> \E k \in 1..Len(outcomes) : ~outcomes[k].ok

\* C7: no exception propagates out of main, whatever the arguments and the
\* outcomes of the external calls.
C7_NoExceptionPropagates == pc # "raised" /\ exc = "none"

\* C8: the command create_release prints in dry-run mode is the command deploy
\* mode would execute: same tag, title, notes and the full list of asset paths.
C8_PrintedCommandIsReleaseCommand ==
    printed # NoCmd =>
        printed = ReleaseCmd(Current, AssetPaths(Current, asset_dir, release_assets))

\* C9: with a build descriptor, npm install runs exactly when node_modules is
\* absent and before the build, the build runs next, assets come from dist/
\* only, and the release command comes last; without a build descriptor no
\* installer and no build run and assets come from the plugin directory.
C9_StepOrder ==
    /\ (npm_out # "none" \/ node_out # "none") =>
          /\ build_file \in {"build.js", "build.mjs"}
          /\ npm_out # "none" <=> ~node_modules
    /\ InCmds("npm install") =>
          /\ ~node_modules
          /\ InCmds("git tag") /\ Pos("git tag") < Pos("npm install")
    /\ InCmds("node build") =>
          /\ build_file \in {"build.js", "build.mjs"}
          /\ node_modules => ~InCmds("npm install")
          /\ ~node_modules =>
                /\ npm_out = "ok"
                /\ InCmds("npm install")
                /\ Pos("node build") = Pos("npm install") + 1
    /\ built <=> node_out = "ok"
    /\ Collects =>
          /\ has_changes
          /\ IF build_file = "none"
             THEN /\ InCmds("collect plugin_dir") /\ ~InCmds("collect dist")
                  /\ asset_dir = "plugin_dir"
                  /\ npm_out = "none" /\ node_out = "none"
                  /\ ~InCmds("npm install") /\ ~InCmds("node build")
             ELSE /\ InCmds("collect dist") /\ ~InCmds("collect plugin_dir")
                  /\ asset_dir = "dist"
                  /\ built
                  /\ Pos("collect dist") = Pos("node build") + 1
    /\ Emits =>
          /\ Collects
          /\ release_assets # <<>>
          /\ cmds[Len(cmds) - 1] \in {"collect dist", "collect plugin_dir"}
          /\ cmds[Len(cmds)] \in {"gh release create", "print command"}

C9_Witness ==
    /\ ~deploy
    /\ idx > 0
    /\ Current = NameAB
    /\ tag_out = "empty"
    /\ build_file = "build.js"
    /\ ~node_modules
    /\ cmds = <<"git tag", "npm install", "node build", "collect dist",
                "print command">>
    /\ printed.title = <<"A", " ", "B">>
    /\ \A k \in 1..Len(printed.assets) : printed.assets[k][3] = "dist"

\* C10: process_plugin moves through DISCOVERED, CHANGE_CHECKED, then SKIPPED,
\* BUILT or UNBUILT, then ASSETS_COLLECTED, then RELEASED, and never backwards;
\* FAILED is entered from any stage that is not terminal.  A call that returns
\* has ended in exactly one of SKIPPED, RELEASED, FAILED, and no external step
\* runs for the plugin after that.
StageSteps ==
    {<<"NONE", "DISCOVERED">>,
     <<"SKIPPED", "DISCOVERED">>, <<"RELEASED", "DISCOVERED">>,
     <<"FAILED", "DISCOVERED">>,
     <<"DISCOVERED", "CHANGE_CHECKED">>, <<"DISCOVERED", "FAILED">>,
     <<"CHANGE_CHECKED", "SKIPPED">>, <<"CHANGE_CHECKED", "BUILT">>,
     <<"CHANGE_CHECKED", "UNBUILT">>, <<"CHANGE_CHECKED", "FAILED">>,
     <<"BUILT", "ASSETS_COLLECTED">>, <<"BUILT", "FAILED">>,
     <<"UNBUILT", "ASSETS_COLLECTED">>, <<"UNBUILT", "FAILED">>,
     <<"ASSETS_COLLECTED", "RELEASED">>, <<"ASSETS_COLLECTED", "FAILED">>}

StageStep ==
    /\ stage' # stage => <<stage, stage'>> \in StageSteps
    /\ idx' # idx => idx' = idx + 1 /\ stage' = "DISCOVERED" /\ cmds' = <<>>
    /\ idx' = idx => (stage' = stage \/ stage \notin Terminal)
    /\ (stage \in Terminal /\ idx' = idx) =>
          /\ cmds' = cmds
          /\ gh_runs' = gh_runs
          /\ outcomes' = outcomes

StageInv ==
    /\ Returned <=> stage \in Terminal
    /\ Returned => (outcomes[idx].ok <=> stage \in {"SKIPPED", "RELEASED"})
    /\ stage \in Terminal => exc = "none"
    /\ (pc \notin {"done", "raised"}) => ENABLED Next

C10_StateMachine == [][StageStep]_vars /\ []StageInv

C10_Witness ==
    /\ pc = "done"
    /\ idx = 2
    /\ outcomes[1].why = "skipping"
    /\ stage = "RELEASED"
    /\ deploy
    /\ built

====
